---- MODULE Spec2Model ----
(***************************************************************************)
(* Model of GoodWillHunting/gwh.py: "Draw all homomorphically irreducible  *)
(* trees for n = 10".  The script builds a constraint model over the edge  *)
(* indicators x(i,j) and the ranks R(i), iterates over every solution of   *)
(* the model, prints each one, writes the edges to gwh_<n>.dot and renders *)
(* that file with neato.                                                   *)
(*                                                                         *)
(* The constraints are translated from the script.  The solver itself is   *)
(* an external library; it is modelled as a depth-first search that        *)
(* rejects a partial assignment only when one single constraint of the     *)
(* script can no longer be satisfied, so the leaves it reaches are exactly *)
(* the satisfying assignments, each reached once.                          *)
(***************************************************************************)
EXTENDS Integers, Sequences, FiniteSets, TLC

\* Largest problem size passed on the command line.
MaxN == 7

\* Largest matrix size for which the ordering constraint is posted on every
\* symmetric 0/1 matrix.
MaxLexN == 5

\* n = 10  # Problem size from the film
DefaultN == 10

\* ord('A')
OrdA == 65

\* A decision variable the solver has not bound yet.
Unk == -1

VARIABLES argv, neato, solver, pc, err, n, pdf_out, x, rank, trail, s, out,
          dotExists, dot, pdf, returncode

vars == <<argv, neato, solver, pc, err, n, pdf_out, x, rank, trail, s, out,
          dotExists, dot, pdf, returncode>>

Nodes(m) == 0 .. (m - 1)

(***************************************************************************)
(* int(sys.argv[1]) on an argument given as its sequence of characters.    *)
(* A character is a string; a character without a literal in this notation *)
(* is named: "VT" is the vertical tab, "NBSP" the no-break space, "U+2003" *)
(* the character with that code point and "Nd0" .. "Nd9" any decimal digit *)
(* with that value outside ASCII.                                          *)
(* int() strips surrounding whitespace, takes one optional sign and then   *)
(* decimal digits, between any two of which a single "_" may stand, and    *)
(* refuses an argument of more than MaxStrDigits digits.                   *)
(***************************************************************************)
DigitChars == <<"0", "1", "2", "3", "4", "5", "6", "7", "8", "9">>

WideDigits == <<"Nd0", "Nd1", "Nd2", "Nd3", "Nd4", "Nd5", "Nd6", "Nd7",
                "Nd8", "Nd9">>

\* The 25 characters int() strips: the six of ASCII and every character
\* outside ASCII that str.isspace() accepts.
Whitespace ==
    {" ", "\t", "\n", "\r", "\f", "VT", "NBSP", "U+0085", "U+1680", "U+2000",
     "U+2001", "U+2002", "U+2003", "U+2004", "U+2005", "U+2006", "U+2007",
     "U+2008", "U+2009", "U+200A", "U+2028", "U+2029", "U+202F", "U+205F",
     "U+3000"}

\* sys.int_info.default_max_str_digits, the interpreter's limit on the
\* digits of a decimal string handed to int().
MaxStrDigits == 4300

IsDigit(c) == \E k \in 1 .. 10 : DigitChars[k] = c \/ WideDigits[k] = c

DigitVal(c) ==
    (CHOOSE k \in 1 .. 10 : DigitChars[k] = c \/ WideDigits[k] = c) - 1

RECURSIVE LStrip(_)
LStrip(a) ==
    IF Len(a) > 0 /\ a[1] \in Whitespace THEN LStrip(Tail(a)) ELSE a

RECURSIVE RStrip(_)
RStrip(a) ==
    IF Len(a) > 0 /\ a[Len(a)] \in Whitespace
    THEN RStrip(SubSeq(a, 1, Len(a) - 1))
    ELSE a

Strip(a) == RStrip(LStrip(a))

HasSign(a) == Len(a) > 0 /\ a[1] \in {"+", "-"}

\* The stripped argument without its sign.
Magnitude(a) == IF HasSign(Strip(a)) THEN Tail(Strip(a)) ELSE Strip(a)

IsMagnitude(b) ==
    /\ Len(b) > 0
    /\ IsDigit(b[1])
    /\ IsDigit(b[Len(b)])
    /\ \A k \in 1 .. Len(b) : IsDigit(b[k]) \/ b[k] = "_"
    /\ \A k \in 1 .. (Len(b) - 1) : ~(b[k] = "_" /\ b[k + 1] = "_")

\* The digits of b; the underscores between them do not count.
DigitCount(b) == Cardinality({k \in 1 .. Len(b) : IsDigit(b[k])})

IsInt(a) ==
    /\ IsMagnitude(Magnitude(a))
    /\ DigitCount(Magnitude(a)) <= MaxStrDigits

RECURSIVE DigitsValue(_)
DigitsValue(b) ==
    IF Len(b) = 0 THEN 0
    ELSE IF b[Len(b)] = "_" THEN DigitsValue(SubSeq(b, 1, Len(b) - 1))
    ELSE 10 * DigitsValue(SubSeq(b, 1, Len(b) - 1)) + DigitVal(b[Len(b)])

ParseInt(a) ==
    IF HasSign(Strip(a)) /\ Strip(a)[1] = "-"
    THEN 0 - DigitsValue(Magnitude(a))
    ELSE DigitsValue(Magnitude(a))

(***************************************************************************)
(* The constraint model of gwh(n), evaluated on a (partial) assignment     *)
(* nd = [x, rank].  x[i][j] and rank[i] are 0/1 resp. 0..n-1 once bound    *)
(* and Unk before; x[i][i] is the constant 0 of the script's matrix.       *)
(***************************************************************************)
EmptyX(m) == [i \in Nodes(m) |-> [j \in Nodes(m) |-> IF i = j THEN 0 ELSE Unk]]

EmptyRank(m) == [i \in Nodes(m) |-> Unk]

\* deg[i] = mdl.sum(x[i]): smallest and largest value still possible.
DegLB(nd, i) == Cardinality({j \in Nodes(n) : nd.x[i][j] = 1})

DegUB(nd, i) == Cardinality({j \in Nodes(n) : nd.x[i][j] # 0})

\* Variant: only degree 0 is forbidden.
ForbiddenDegOnlyZero(d) == d \in {0}

\* Variant: degree 1 is forbidden as well.
ForbiddenDegAlsoOne(d) == d \in {0, 1, 2}

\* mdl.forbidden_assignments(deg[i], [0, 2])
ForbiddenDeg(d) == d \in {0, 2}

DegreeOK(nd, i) ==
    \E d \in DegLB(nd, i) .. DegUB(nd, i) : ~ForbiddenDeg(d)

\* Variant: rank[0] == n, a value outside the domain 0..n-1.
Rank0IsN(nd) == nd.rank[0] \in {Unk, n}

\* Variant: the rank of node 0 is left free.
Rank0Free(nd) == TRUE

\* rank[0] == 0
Rank0OK(nd) == nd.rank[0] \in {Unk, 0}

Abs(v) == IF v < 0 THEN 0 - v ELSE v

\* mdl.if_then(x[i][j] == 1, mdl.abs(rank[i] - rank[j]) == 1)
IfThenOK(nd, i, j) ==
    (nd.x[i][j] = 1 /\ nd.rank[i] # Unk /\ nd.rank[j] # Unk)
        => Abs(nd.rank[i] - nd.rank[j]) = 1

\* One term of num_parents: (x[i][j] == 1) & (rank[j] == rank[i] - 1).
\* "T" / "F" once decided by the bound variables, "U" while still open; a
\* rank of -1 lies outside the domain of every rank variable.
ParentTerm(nd, i, j) ==
    IF nd.x[i][j] = 0 THEN "F"
    ELSE IF nd.rank[i] = 0 THEN "F"
    ELSE IF nd.rank[i] # Unk /\ nd.rank[j] # Unk
         THEN IF nd.rank[j] # nd.rank[i] - 1 THEN "F"
              ELSE IF nd.x[i][j] = 1 THEN "T" ELSE "U"
         ELSE "U"

NumParentsLB(nd, i) ==
    Cardinality({j \in Nodes(n) : ParentTerm(nd, i, j) = "T"})

NumParentsUB(nd, i) ==
    Cardinality({j \in Nodes(n) : ParentTerm(nd, i, j) # "F"})

\* Variant: num_parents <= 1.
NumParentsAtMost(lb, ub) == lb <= 1

\* mdl.add(num_parents == 1)
NumParentsIs(lb, ub) == lb <= 1 /\ 1 <= ub

NumParentsOK(nd, i) == NumParentsIs(NumParentsLB(nd, i), NumParentsUB(nd, i))

\* Variant: a strictly before b.
RECURSIVE LexLess(_, _, _, _)
LexLess(a, b, t, m) ==
    IF t > m THEN FALSE
    ELSE IF a[t] < b[t] THEN TRUE
    ELSE IF a[t] > b[t] THEN FALSE
    ELSE LexLess(a, b, t + 1, m)

\* a[t..m] <= b[t..m] in lexicographic order.
RECURSIVE LexLeq(_, _, _, _)
LexLeq(a, b, t, m) ==
    IF t > m THEN TRUE
    ELSE IF a[t] < b[t] THEN TRUE
    ELSE IF a[t] > b[t] THEN FALSE
    ELSE LexLeq(a, b, t + 1, m)

\* Variant: [d] + row[:i] + row[i+1:], only column i dropped.
RowSigKeepPrev(d, row, i) ==
    [t \in 1 .. n |->
        IF t = 1 THEN d
        ELSE IF t <= i + 1 THEN row[t - 2]
        ELSE row[t - 1]]

\* [d] + row[:i-1] + row[i+1:]
RowSig(d, row, i) ==
    [t \in 1 .. (n - 1) |->
        IF t = 1 THEN d
        ELSE IF t <= i THEN row[t - 2]
        ELSE row[t]]

\* Row k of x with every unbound entry at its smallest resp. largest value.
RowLB(nd, k) == [j \in Nodes(n) |-> IF nd.x[k][j] = Unk THEN 0 ELSE nd.x[k][j]]

RowUB(nd, k) == [j \in Nodes(n) |-> IF nd.x[k][j] = Unk THEN 1 ELSE nd.x[k][j]]

\* a1 = [deg[i-1]] + x[i-1][:i-1] + x[i-1][i+1:]
\* a2 = [deg[i  ]] + x[i  ][:i-1] + x[i  ][i+1:]
\* mdl.lexicographic(a2, a1): a2 is at most a1.  It can still be satisfied
\* only if the smallest a2 is at most the largest a1; on bound rows this is
\* the constraint itself.
LexOK(nd, i) ==
    LexLeq(RowSig(DegLB(nd, i), RowLB(nd, i), i),
           RowSig(DegUB(nd, i - 1), RowUB(nd, i - 1), i), 1, n - 1)

\* The constraints in whose scope the variable v lies are still satisfiable
\* once v is bound; the others were examined when their own variables were
\* bound.  x(i,j) occurs in the degree, if_then, num_parents and ordering
\* constraints of i and j (the ordering of a node and of its successor);
\* R(j) occurs in rank[0] == 0, in the if_then constraints of j and in the
\* num_parents of j and of every node that may still be adjacent to j.
ConsistentAfter(nd, v) ==
    IF v[1] = 0
    THEN /\ IfThenOK(nd, v[3], v[2])
         /\ \A i \in {v[2], v[3]} :
               /\ DegreeOK(nd, i)
               /\ i >= 1 => LexOK(nd, i)
               /\ i + 1 <= n - 1 => LexOK(nd, i + 1)
               /\ i >= 1 => NumParentsOK(nd, i)
    ELSE /\ Rank0OK(nd)
         /\ \A k \in Nodes(n) : IfThenOK(nd, v[2], k)
         /\ \A i \in 1 .. (n - 1) :
               (i = v[2] \/ nd.x[i][v[2]] # 0) => NumParentsOK(nd, i)

\* Every x(i,j), i < j, and every R(i) is bound.
NumVars == (n * (n - 1)) \div 2 + n

Complete(nd) == Len(nd.trail) = NumVars

(***************************************************************************)
(* The solver: depth-first search over the decision variables.  A variable *)
(* is <<0, i, j>> for x(i,j) and <<1, j, j>> for R(j).                     *)
(***************************************************************************)
Pairs(m) == {p \in Nodes(m) \X Nodes(m) : p[1] < p[2]}

PairBefore(p, q) == p[1] < q[1] \/ (p[1] = q[1] /\ p[2] < q[2])

\* Ranks whose node already has a ranked neighbour.
Anchored(nd) ==
    {j \in Nodes(n) : nd.rank[j] = Unk /\
        \E k \in Nodes(n) : nd.x[j][k] = 1 /\ nd.rank[k] # Unk}

FreeRanks(nd) == {j \in Nodes(n) : nd.rank[j] = Unk}

MinOf(S) == CHOOSE u \in S : \A w \in S : u <= w

\* The first x(i,j), i < j, in creation order that is not bound.  The edge
\* indicators are bound in that order, so a row is open exactly while its
\* last entry is.
FirstFreePair(nd) ==
    LET i == MinOf({k \in 0 .. (n - 2) : nd.x[k][n - 1] = Unk})
    IN  <<0, i, MinOf({k \in (i + 1) .. (n - 1) : nd.x[i][k] = Unk})>>

\* The rank of a node with a ranked neighbour first, then the next edge
\* indicator, then the remaining ranks.
ChooseVar(nd) ==
    IF nd.rank[0] = Unk THEN <<1, 0, 0>>
    ELSE LET A == Anchored(nd)
         IN  IF A # {} THEN LET j == MinOf(A) IN <<1, j, j>>
             ELSE IF n > 1 /\ nd.x[n - 2][n - 1] = Unk THEN FirstFreePair(nd)
             ELSE LET j == MinOf(FreeRanks(nd)) IN <<1, j, j>>

\* mdl.integer_var(0, 1, ...) and mdl.integer_var(0, n - 1, ...)
MaxVal(v) == IF v[1] = 0 THEN 1 ELSE n - 1

Bind(nd, v, val) ==
    IF v[1] = 0
    THEN [nd EXCEPT !.x[v[2]][v[3]] = val, !.x[v[3]][v[2]] = val]
    ELSE [nd EXCEPT !.rank[v[2]] = val]

Assign(nd, v, val) ==
    [Bind(nd, v, val) EXCEPT !.trail = Append(nd.trail, <<v, val>>)]

Unassign(nd) ==
    LET last == nd.trail[Len(nd.trail)]
    IN  [Bind(nd, last[1], Unk) EXCEPT
            !.trail = SubSeq(nd.trail, 1, Len(nd.trail) - 1)]

Exhausted == [x |-> EmptyX(n), rank |-> EmptyRank(n), trail |-> <<>>,
              live |-> FALSE, up |-> TRUE]

\* The first value at or after val with which v can be bound, or a value
\* above MaxVal(v) when there is none.
RECURSIVE FirstValue(_, _, _)
FirstValue(nd, v, val) ==
    IF val > MaxVal(v) THEN val
    ELSE IF ConsistentAfter(Assign(nd, v, val), v) THEN val
    ELSE FirstValue(nd, v, val + 1)

\* Bind v to its first consistent value at or after val; with none left
\* the search turns back.
TryFrom(nd, v, val) ==
    LET first == FirstValue(nd, v, val)
    IN  IF first <= MaxVal(v)
        THEN [Assign(nd, v, first) EXCEPT !.up = FALSE]
        ELSE [nd EXCEPT !.up = TRUE]

\* One move of the depth-first search.  Going down it binds the next
\* variable; turning back, or leaving a solution, it undoes the last
\* decision and goes on from the value after it.
SearchStep(nd) ==
    IF nd.up \/ Complete(nd)
    THEN IF nd.trail = <<>> THEN Exhausted
         ELSE LET last == nd.trail[Len(nd.trail)]
              IN  TryFrom(Unassign(nd), last[1], last[2] + 1)
    ELSE TryFrom(nd, ChooseVar(nd), 0)

Node == [x |-> x, rank |-> rank, trail |-> trail, live |-> TRUE,
         up |-> (pc = "backtrack")]

\* The moves the solver makes in one step of the model.  Where the search
\* is cut into steps does not change the solutions it delivers.
SearchBurst == 16

\* Up to k further moves, stopping at a solution or at exhaustion.
RECURSIVE Advance(_, _)
Advance(nd, k) ==
    IF k = 0 \/ ~nd.live \/ (Complete(nd) /\ ~nd.up) THEN nd
    ELSE Advance(SearchStep(nd), k - 1)

(***************************************************************************)
(* What the loop body prints and writes for the solution res.              *)
(***************************************************************************)
RECURSIVE SumSeq(_)
SumSeq(q) == IF Len(q) = 0 THEN 0 ELSE q[1] + SumSeq(Tail(q))

\* sig = [sum(res[x[i][j]] for j in range(n) if i != j) for i in range(n)]
Sig(res) ==
    [t \in 1 .. n |->
        SumSeq([u \in 1 .. (n - 1) |->
                    IF u - 1 < t - 1 THEN res[t - 1][u - 1] ELSE res[t - 1][u]])]

\* line = '  ' * i + '.' followed by ' {}'.format(res[x[i][j]]), j > i
Line(res, i) == <<".", i, [t \in 1 .. (n - 1 - i) |-> res[i][i + t]]>>

ScreenLines(res, k) ==
    <<<<"Graph", k, Sig(res)>>>> \o [t \in 1 .. n |-> Line(res, t - 1)]

\* '"{0}{1}"--"{0}{2}";'.format(s, ni, nj) for every edge, in loop order
RECURSIVE EdgeLines(_, _, _)
EdgeLines(res, k, ps) ==
    IF ps = {} THEN <<>>
    ELSE LET p == CHOOSE q \in ps : \A w \in ps : q = w \/ PairBefore(q, w)
         IN  (IF res[p[1]][p[2]] = 1
              THEN <<<<k, OrdA + p[1], OrdA + p[2]>>>>
              ELSE <<>>) \o EdgeLines(res, k, ps \ {p})

(***************************************************************************)
(* The program.                                                            *)
(***************************************************************************)
ArgChars == {DigitChars[k + 1] : k \in 0 .. MaxN} \cup {"a"}

\* An argument of one digit more than int() converts.
LongArg == [k \in 1 .. (MaxStrDigits + 1) |-> "1"]

\* Arguments that int() reads with a sign, surrounding whitespace, an
\* underscore or a digit outside ASCII, and arguments it rejects.
ArgSamples ==
    {<<"+", "3">>, <<"-", "1">>, <<" ", "4">>, <<"4", " ">>,
     <<"0", "_", "4">>, <<"Nd4">>, <<"\t", "+", "0", "5", "\n">>,
     <<"U+2003", "4">>, <<"4", "U+2003">>, <<"U+0085", "4">>,
     <<"U+3000", "5", "U+2028">>,
     <<"4", "_">>, <<"_", "4">>, <<"1", "_", "_", "0">>, <<"+", " ", "3">>,
     <<"U+001C", "4">>, <<"U+200B", "4">>, <<"4", " ", "4">>,
     <<"+">>, <<" ">>, <<>>, LongArg}

InitRest ==
    /\ solver \in {"ok", "unavailable"}
    /\ neato \in {"missing", "present", "noexec"}
    /\ pc = "main"
    /\ err = "none"
    /\ n = DefaultN
    /\ pdf_out = TRUE
    /\ x = EmptyX(0)
    /\ rank = EmptyRank(0)
    /\ trail = <<>>
    /\ s = 0
    /\ out = <<>>
    /\ dotExists = FALSE
    /\ dot = <<>>
    /\ pdf = "absent"
    /\ returncode = "unrun"

Init ==
    /\ argv \in {<<<<c>>>> : c \in ArgChars} \cup {<<a>> : a \in ArgSamples}
    /\ InitRest

\* The script started without an argument, the solver installed and no
\* layout tool on the machine.
InitFilm ==
    /\ argv = <<>>
    /\ InitRest
    /\ solver = "ok"
    /\ neato = "missing"

\* if len(sys.argv) > 1: n = int(sys.argv[1])
ParseArgs ==
    /\ pc = "main"
    /\ IF Len(argv) > 0
       THEN IF IsInt(argv[1])
            THEN n' = ParseInt(argv[1]) /\ pc' = "probe" /\ err' = err
            ELSE n' = n /\ pc' = "crash" /\ err' = "ValueError"
       ELSE n' = n /\ pc' = "probe" /\ err' = err
    /\ UNCHANGED <<argv, neato, solver, pdf_out, x, rank, trail, s, out,
                   dotExists, dot, pdf, returncode>>

\* try: subprocess.run(['neato', '-h'])
\* except FileNotFoundError: pdf_out = False
\* Variant: the probe never reports the tool as missing.
ProbeAlwaysFound(tool) == TRUE

ProbeFound(tool) == tool # "missing"

\* What the probed tool writes on the standard output it shares with the
\* script: nothing, or its help text.
HelpLine == <<"neato -h">>

ToolHelp == {<<>>, <<HelpLine>>}

\* A tool that is found but cannot be started (no execute permission)
\* raises an OSError other than FileNotFoundError, which is not caught.
Probe ==
    /\ pc = "probe"
    /\ IF neato = "noexec"
       THEN /\ pc' = "crash" /\ err' = "PermissionError"
            /\ UNCHANGED <<pdf_out, out>>
       ELSE /\ pdf_out' = ProbeFound(neato)
            /\ pc' = "gwh" /\ err' = err
            /\ IF neato = "present"
               THEN \E help \in ToolHelp : out' = out \o help
               ELSE out' = out
    /\ UNCHANGED <<argv, neato, solver, n, x, rank, trail, s,
                   dotExists, dot, pdf, returncode>>

\* gwh up to the solution loop: build the model, open the .dot file.
Build ==
    /\ pc = "gwh"
    /\ IF n < 1
       THEN /\ pc' = "crash" /\ err' = "IndexError"
            /\ UNCHANGED <<x, rank, trail, s, dotExists, dot>>
       ELSE /\ x' = EmptyX(n)
            /\ rank' = EmptyRank(n)
            /\ trail' = <<>>
            /\ s' = 0
            /\ dotExists' = (dotExists \/ pdf_out)
            /\ dot' = IF pdf_out THEN <<"graph {">> ELSE dot
            /\ pc' = "solve" /\ err' = err
    /\ UNCHANGED <<argv, neato, solver, n, pdf_out, out, pdf, returncode>>

\* for res in CpoSolver(mdl, LogVerbosity='Quiet'): one burst of the search
SolverStep ==
    /\ pc \in {"solve", "backtrack"}
    /\ IF solver = "unavailable"
       THEN /\ pc' = "crash" /\ err' = "CpoException"
            /\ UNCHANGED <<x, rank, trail>>
       ELSE \E nxt \in {Advance(SearchStep(Node), SearchBurst - 1)} :
                /\ x' = nxt.x
                /\ rank' = nxt.rank
                /\ trail' = nxt.trail
                /\ pc' = IF ~nxt.live THEN "finish"
                         ELSE IF nxt.up THEN "backtrack"
                         ELSE IF Complete(nxt) THEN "body" ELSE "solve"
                /\ err' = err
    /\ UNCHANGED <<argv, neato, solver, n, pdf_out, s, out, dotExists, dot,
                   pdf, returncode>>

\* The loop body for one solution.
Report ==
    /\ pc = "body"
    /\ s' = s + 1
    /\ out' = out \o ScreenLines(x, s + 1)
    /\ dot' = IF pdf_out THEN dot \o EdgeLines(x, s + 1, Pairs(n)) ELSE dot
    /\ pc' = "solve"
    /\ UNCHANGED <<argv, neato, solver, err, n, pdf_out, x, rank, trail,
                   dotExists, pdf, returncode>>

\* Variant: the file is removed only after a rendering with status zero.
DotAfterRenderOnSuccess(outcome, before) ==
    IF outcome = "zero" THEN FALSE ELSE before

\* subprocess.run([...], stdout=pdf) raises only when the tool cannot be
\* started; os.unlink(dotfile) is the statement after it.
DotAfterRender(outcome, before) ==
    IF outcome = "OSError" THEN before ELSE FALSE

\* "Finish up": the count line, then close, render and unlink.
FinishUp ==
    /\ pc = "finish"
    /\ out' = Append(out, <<"solutions found", s>>)
    /\ IF pdf_out
       THEN /\ dot' = Append(dot, "}")
            /\ \E outcome \in {"zero", "nonzero", "signal", "OSError"} :
                 /\ returncode' = IF outcome = "OSError" THEN returncode
                                  ELSE outcome
                 /\ pdf' = IF outcome = "zero" THEN "document" ELSE "empty"
                 /\ IF outcome = "OSError"
                    THEN pc' = "crash" /\ err' = "OSError"
                    ELSE pc' = "status" /\ err' = err
                 /\ dotExists' = DotAfterRender(outcome, dotExists)
       ELSE /\ pc' = "status"
            /\ UNCHANGED <<err, dotExists, dot, pdf, returncode>>
    /\ UNCHANGED <<argv, neato, solver, n, pdf_out, x, rank, trail, s>>

\* "GraphViz rendered trees in gwh_{}.pdf".format(n)
SuccessLine == <<"GraphViz rendered trees in", n>>

NotFoundLine == <<"GraphViz rendering commands not found.  No PDF generated">>

\* The closing status line of the script.
Status ==
    /\ pc = "status"
    /\ out' = Append(out, IF pdf_out THEN SuccessLine ELSE NotFoundLine)
    /\ pc' = "exit"
    /\ UNCHANGED <<argv, neato, solver, err, n, pdf_out, x, rank, trail, s,
                   dotExists, dot, pdf, returncode>>

Next ==
    \/ ParseArgs
    \/ Probe
    \/ Build
    \/ SolverStep
    \/ Report
    \/ FinishUp
    \/ Status

Spec == Init /\ [][Next]_vars

SpecFilm == InitFilm /\ [][Next]_vars

(***************************************************************************)
(* The ordering constraint posted on a fully bound symmetric matrix.       *)
(***************************************************************************)
SymMatrices(m) ==
    {[i \in Nodes(m) |-> [j \in Nodes(m) |->
          IF <<i, j>> \in E \/ <<j, i>> \in E THEN 1 ELSE 0]] :
       E \in SUBSET Pairs(m)}

InitLex ==
    /\ argv = <<>>
    /\ solver = "ok"
    /\ neato = "missing"
    /\ pc = "lex"
    /\ err = "none"
    /\ n \in 1 .. MaxLexN
    /\ pdf_out = TRUE
    /\ x \in SymMatrices(n)
    /\ rank = EmptyRank(n)
    /\ trail = <<>>
    /\ s = 0
    /\ out = <<>>
    /\ dotExists = FALSE
    /\ dot = <<>>
    /\ pdf = "absent"
    /\ returncode = "unrun"

\* for i in range(1, n): mdl.add(mdl.lexicographic(a2, a1))
PostLex ==
    /\ pc = "lex"
    /\ pc' = IF \A i \in 1 .. (n - 1) : LexOK(Node, i)
             THEN "lex_sat" ELSE "lex_unsat"
    /\ UNCHANGED <<argv, neato, solver, err, n, pdf_out, x, rank, trail, s,
                   out, dotExists, dot, pdf, returncode>>

NextLex == PostLex

SpecLex == InitLex /\ [][NextLex]_vars

(***************************************************************************)
(* Graph notions used by the properties.                                   *)
(***************************************************************************)
Neighbours(m, i) == {j \in Nodes(n) : m[i][j] = 1}

RECURSIVE ReachFrom(_, _)
ReachFrom(m, S) ==
    LET T == S \cup UNION {Neighbours(m, i) : i \in S}
    IN  IF T = S THEN S ELSE ReachFrom(m, T)

Connected(m) == ReachFrom(m, {0}) = Nodes(n)

\* Repeatedly remove the vertices with at most one neighbour left; a graph
\* has no cycle exactly when nothing remains.
RECURSIVE Core(_, _)
Core(m, V) ==
    LET L == {i \in V : Cardinality(Neighbours(m, i) \cap V) <= 1}
    IN  IF L = {} THEN V ELSE Core(m, V \ L)

Acyclic(m) == Core(m, Nodes(n)) = {}

EdgeCount(m) == Cardinality({p \in Pairs(n) : m[p[1]][p[2]] = 1})

\* Distance of node i from node 0.
RECURSIVE DistFrom(_, _, _, _)
DistFrom(m, S, d, i) ==
    IF i \in S THEN d
    ELSE LET T == S \cup UNION {Neighbours(m, k) : k \in S}
         IN  IF T = S THEN 0 - 1 ELSE DistFrom(m, T, d + 1, i)

\* The k-th graph as printed: row i of the listing holds x(i,j) for j > i.
\* The lines of the tool's help text ahead of the script's own output.
HelpLines == IF Len(out) > 0 /\ out[1] = HelpLine THEN 1 ELSE 0

\* Where the listing of solution k starts in the output.
GraphAt(k) == HelpLines + (k - 1) * (n + 1) + 1

PrintedRows(k) == [i \in Nodes(n) |-> out[GraphAt(k) + 1 + i][3]]

PrintedEdges(k) ==
    {{p[1], p[2]} : p \in {q \in Pairs(n) :
                              PrintedRows(k)[q[1]][q[2] - q[1]] = 1}}

PrintedGraphs == {PrintedEdges(k) : k \in 1 .. s}

\* Every unlabelled tree on m nodes has a breadth-first numbering, in which
\* the parent f[i] of node i precedes i and parents never decrease.
RECURSIVE TreeShapes(_)
TreeShapes(m) ==
    IF m <= 1 THEN {<<>>}
    ELSE {Append(f, v) : f \in TreeShapes(m - 1), v \in Nodes(m - 1)}

IsBfsShape(f) ==
    \A i \in 1 .. Len(f) :
        /\ f[i] < i
        /\ i > 1 => f[i - 1] <= f[i]

ShapeDegree(f, v) ==
    Cardinality({i \in 1 .. Len(f) : f[i] = v}) + (IF v = 0 THEN 0 ELSE 1)

IrreducibleShapes(m) ==
    {f \in TreeShapes(m) :
        /\ IsBfsShape(f)
        /\ \A v \in Nodes(m) : ShapeDegree(f, v) \notin {0, 2}}

Relabel(f, p) == {{p[i], p[f[i]]} : i \in 1 .. Len(f)}

CountLines == {k \in 1 .. Len(out) : out[k][1] = "solutions found"}

(***************************************************************************)
(* Properties.                                                             *)
(***************************************************************************)

\* C1: every enumerated solution is a tree on the n nodes: connected,
\* acyclic, with exactly n-1 edges, and every node other than node 0 has
\* exactly one neighbour whose rank is one less than its own.
C1_SolutionIsTree ==
    pc = "body" =>
        /\ Connected(x)
        /\ Acyclic(x)
        /\ EdgeCount(x) = n - 1
        /\ \A i \in 1 .. (n - 1) :
              Cardinality({j \in Neighbours(x, i) : rank[j] = rank[i] - 1}) = 1

C1_Witness == pc = "body" /\ n = 6 /\ s = 1 /\ EdgeCount(x) = 5

\* C2: for n > 1 the realized degree of every node of every enumerated
\* solution is neither 0 nor 2.
C2_NoDegree0Or2 ==
    (pc = "body" /\ n > 1) => \A i \in 1 .. n : Sig(x)[i] \notin {0, 2}

C2_Witness == pc = "body" /\ n = 5 /\ Sig(x) = <<4, 1, 1, 1, 1>>

\* C3: once the enumeration is over, every homomorphically irreducible tree
\* on n nodes (no vertex of degree 0 or 2) is isomorphic to one of the
\* printed solutions.
C3_EveryIrreducibleTreeFound ==
    pc = "exit" =>
        LET printed == PrintedGraphs
            perms == Permutations(Nodes(n))
        IN  \A f \in IrreducibleShapes(n) :
                \E p \in perms : Relabel(f, p) \in printed

C3_Witness ==
    pc = "exit" /\ n = 6 /\ Cardinality(IrreducibleShapes(6)) >= 2 /\ s = 2

\* C4: for n = 10 exactly 10 solutions are enumerated, and the last line
\* gwh prints is "10 solutions found".
C4_TenSolutionsForTen ==
    (n = 10 /\ pc \in {"status", "exit"}) =>
        /\ s = 10
        /\ Len(out) >= GraphAt(11)
        /\ out[GraphAt(11)] = <<"solutions found", 10>>
        /\ \A k \in 1 .. 10 : out[GraphAt(k)][1] = "Graph" /\ out[GraphAt(k)][2] = k

C4_Witness == n = 10 /\ pc = "exit" /\ argv = <<>> /\ s = 10

\* C5 as stated: for every n >= 1 the count printed in "<total> solutions
\* found" is never 0.
C5_CountNeverZero ==
    n >= 1 => \A k \in CountLines : out[k][2] # 0

\* C5 amended: for n >= 1 the printed count is 0 exactly when n = 3.
C5_CountZeroOnlyForThree ==
    n >= 1 => \A k \in CountLines : (out[k][2] = 0) <=> (n = 3)

C5_Witness == pc = "exit" /\ n = 4 /\ out[Len(out) - 1] = <<"solutions found", 1>>

\* C6: when the probe cannot locate the layout tool, the run never creates
\* gwh_<n>.dot or gwh_<n>.pdf, the probe itself never ends the run, and a
\* run that ends normally has printed every solution, the solution count
\* and last the "rendering commands not found" line, never the success line.
C6_TextOnlyRun ==
    neato = "missing" =>
        /\ ~dotExists /\ dot = <<>> /\ pdf = "absent"
        /\ pc = "crash" => err \in {"ValueError", "IndexError", "CpoException"}
        /\ pc \notin {"main", "probe"} => (pc = "crash" \/ ~pdf_out)
        /\ pc = "exit" =>
              /\ Len(out) = s * (n + 1) + 2
              /\ \A k \in 1 .. s : out[GraphAt(k)][2] = k
              /\ out[Len(out) - 1] = <<"solutions found", s>>
              /\ out[Len(out)] = NotFoundLine
              /\ \A k \in 1 .. Len(out) : out[k] # SuccessLine

C6_Witness ==
    neato = "missing" /\ pc = "exit" /\ n = 7 /\ s = 2 /\ ~dotExists

\* C7 as stated: in every run in which gwh_<n>.dot was created, the file
\* does not exist when the process ends.
C7_DotGoneAtEnd ==
    (pc \in {"exit", "crash"} /\ dot # <<>>) => ~dotExists

\* C7 amended: in every run in which gwh_<n>.dot was created and the
\* layout tool was started for the rendering, the file is deleted, whether
\* the tool exits with status zero, a failure status or on a signal.
C7_DotGoneAfterRender ==
    (dot # <<>> /\ returncode # "unrun") => ~dotExists

C7_Witness ==
    pc = "exit" /\ returncode = "nonzero" /\ dot # <<>> /\ ~dotExists

\* C8: if the tool was found by the probe and its rendering invocation
\* fails, the process terminates abnormally, and the success line is printed
\* only when the rendering occurred.
C8_RenderFailureIsFatal ==
    /\ returncode \in {"nonzero", "signal"} => pc = "crash"
    /\ (\E k \in 1 .. Len(out) : out[k] = SuccessLine) => pdf = "document"

\* The ordering as the specification words it: [deg(k)] followed by x(k,j)
\* for every j # k in ascending j.
SpecSig(m, k) ==
    [t \in 1 .. n |->
        IF t = 1 THEN Cardinality(Neighbours(m, k))
        ELSE IF t - 2 < k THEN m[k][t - 2]
        ELSE m[k][t - 1]]

SpecOrder(m) ==
    \A i \in 1 .. (n - 1) : LexLeq(SpecSig(m, i), SpecSig(m, i - 1), 1, n)

\* C9: the ordering with only the diagonal entry omitted accepts exactly
\* the assignments accepted by the constraint the script posts.
C9_SameOrdering ==
    pc \in {"lex_sat", "lex_unsat"} => ((pc = "lex_sat") <=> SpecOrder(x))

C9_Witness ==
    pc = "lex_sat" /\ n = 4 /\ x[0][1] = 1 /\ EdgeCount(x) = 3

\* C10: no two enumerated solutions have the same edge assignment, and in
\* every solution rank(i) is the distance of node i from node 0.
C10_RanksDetermined ==
    /\ pc = "body" => \A i \in Nodes(n) : rank[i] = DistFrom(x, {0}, 0, i)
    /\ pc = "finish" =>
          \A k1, k2 \in 1 .. s : k1 # k2 => PrintedRows(k1) # PrintedRows(k2)

C10_Witness == pc = "finish" /\ n = 7 /\ s = 2

====
